---- MODULE Spec2Model ----
(***************************************************************************)
(* Entity name resolution of the BBB scraper (next.config.js): the         *)
(* normalizer, the suffix stripper, the variation generator, the scorer    *)
(* cascade and findBestMatch, with the handler's use of its result.        *)
(*                                                                         *)
(* Names are TLA+ strings (sequences of characters); Len, SubSeq and \o    *)
(* act on them as the JavaScript string operations do.  Scores are exact   *)
(* rationals [n |-> numerator, d |-> denominator] in lowest terms, so that *)
(* two scores are equal exactly when the records are equal; the IEEE       *)
(* rounding of the JavaScript doubles is not modelled.  A division by zero *)
(* gives NaN or Infinity, a record whose denominator is 0.                 *)
(*                                                                         *)
(* The specifications: Spec runs findBestMatch and the handler on a query, *)
(* a list of card names and a threshold; SpecOrder runs findBestMatch with *)
(* its (variation, card) pairs scored out of order; SpecScore is one call  *)
(* of calculateMatchScore; SpecSimilarity one call of calculateSimilarity  *)
(* and levenshteinDistance; SpecVariations one call of                     *)
(* generateNameVariations; SpecNorm is normalizeCompanyName applied to a   *)
(* text and then to its own result; SpecCore is extractCoreName on a name  *)
(* that ends with a phrase of the suffix table and on the name without it; *)
(* SpecTotal applies every function to names at the edges of the inputs.   *)
(* SpecRetry is scrapeWithRetry of the Sunbiz scraper                      *)
(* (src/pages/api/scrapeSunbiz.ts) with the attempts it starts, and        *)
(* SpecRetryFair adds that its timers fire.                                *)
(***************************************************************************)
EXTENDS Integers, Sequences, FiniteSets, TLC

VARIABLES
  queryName,       \* findBestMatch's searchName
  results,         \* its results: the companyName of each ParsedResultCard
  minScore,        \* its minScore
  pc,              \* where the call stands
  nameVariations,
  resultIndex,     \* the index in results of the card the loop is at
  bestMatch,       \* the index in results of the card held, 0 for null
  bestScore,
  bestMatchType,
  allScores,
  response,        \* what the handler answers
  argA, argB,      \* the arguments of a single call of a pure function
  ret              \* and what it returned; the partial results of SpecOrder;
                   \* the state of the call of scrapeWithRetry

vars == << queryName, results, minScore, pc, nameVariations, resultIndex, bestMatch,
           bestScore, bestMatchType, allScores, response, argA, argB, ret >>


(***************************************************************************)
(* Strings                                                                 *)
(***************************************************************************)
Char(s, i) == SubSeq(s, i, i)

\* The model checker hands an argument over unevaluated and evaluates it where it is first
\* used; Strict(v, e) evaluates v and then e, which keeps a loop's accumulator
\* from growing into a chain of pending evaluations
Strict(v, e) == IF v = v THEN e ELSE e

Chars(chars) == { Char(chars, k) : k \in 1..Len(chars) }

UPPER == "ABCDEFGHIJKLMNOPQRSTUVWXYZ"
LOWER == "abcdefghijklmnopqrstuvwxyz"
DIGITS == "0123456789"

UpperChars == Chars(UPPER)
LowerOf == [c \in UpperChars |-> Char(LOWER, CHOOSE k \in 1..Len(UPPER) : Char(UPPER, k) = c)]

\* String.prototype.toLowerCase, on one character (ASCII letters)
LowerChar(c) == IF c \in UpperChars THEN LowerOf[c] ELSE c

\* the regular expression class \s, and what trim() removes
WhiteSpace == { " ", "\t", "\n", "\r", "\f" }
IsSpace(c) == c \in WhiteSpace

\* the regular expression class \w, which decides \b
WordChars == Chars(LOWER) \cup Chars(UPPER) \cup Chars(DIGITS) \cup { "_" }
IsWordChar(c) == c \in WordChars

\* the concatenation pieces[lo] \o ... \o pieces[hi], built by halves
RECURSIVE Concat(_, _, _)
Concat(pieces, lo, hi) ==
  IF lo > hi THEN ""
  ELSE IF lo = hi THEN pieces[lo]
  ELSE Concat(pieces, lo, (lo + hi) \div 2) \o Concat(pieces, (lo + hi) \div 2 + 1, hi)

\* String.prototype.toLowerCase
toLowerCase(s) == Concat([i \in 1..Len(s) |-> LowerChar(Char(s, i))], 1, Len(s))

\* String.prototype.trim
trim(s) ==
  IF s = "" \/ (~IsSpace(Char(s, 1)) /\ ~IsSpace(Char(s, Len(s)))) THEN s
  ELSE LET kept == { k \in 1..Len(s) : ~IsSpace(Char(s, k)) }
       IN IF kept = {} THEN ""
          ELSE SubSeq(s, CHOOSE k \in kept : \A j \in kept : k <= j,
                         CHOOSE k \in kept : \A j \in kept : j <= k)

\* String.prototype.includes
includes(s, sub) ==
  \E i \in 0..(Len(s) - Len(sub)) : SubSeq(s, i + 1, i + Len(sub)) = sub

\* s.split(' '): the pieces between single spaces, empty pieces kept
split(s) ==
  LET spaces == { i \in 1..Len(s) : Char(s, i) = " " }
      \* the position of the k-th space; 0 and Len(s) + 1 bound the string
      at(k) == IF k = 0 THEN 0
               ELSE IF k > Cardinality(spaces) THEN Len(s) + 1
               ELSE CHOOSE p \in spaces : Cardinality({ q \in spaces : q < p }) = k - 1
  IN [k \in 1..(Cardinality(spaces) + 1) |-> SubSeq(s, at(k - 1) + 1, at(k) - 1)]

\* words.join(' ')
join(words) ==
  Concat([i \in 1..Len(words) |-> IF i = 1 THEN words[1] ELSE " " \o words[i]],
         1, Len(words))

InSeq(x, xs) == \E i \in 1..Len(xs) : xs[i] = x

\* \b at the gap before character i of s (i in 1..Len(s)+1)
WordBoundary(s, i) ==
  LET before == i > 1 /\ IsWordChar(Char(s, i - 1))
      after == i <= Len(s) /\ IsWordChar(Char(s, i))
  IN before # after

\* s.replace(/from/g, to) for a literal pattern, and, with words = TRUE,
\* s.replace(new RegExp('\\b' + from + '\\b', 'gi'), to) on a lower-case s:
\* the matches are taken leftmost first and do not overlap
MatchAt(s, from, words, i) ==
  /\ i + Len(from) - 1 <= Len(s)
  /\ SubSeq(s, i, i + Len(from) - 1) = from
  /\ words => WordBoundary(s, i) /\ WordBoundary(s, i + Len(from))

RECURSIVE replaceFrom(_, _, _, _, _)
replaceFrom(s, from, to, words, i) ==
  LET matches == { k \in i..Len(s) : MatchAt(s, from, words, k) }
  IN IF matches = {} THEN SubSeq(s, i, Len(s))
     ELSE LET k == CHOOSE m \in matches : \A n \in matches : m <= n
          IN SubSeq(s, i, k - 1) \o to \o replaceFrom(s, from, to, words, k + Len(from))

replaceAll(s, from, to) == replaceFrom(s, from, to, FALSE, 1)

\* the replacement of line 224 with the two \b left out of the pattern
replaceWordAnywhere(s, word, to) == replaceFrom(s, word, to, FALSE, 1)

replaceWord(s, word, to) == replaceFrom(s, word, to, TRUE, 1)

(***************************************************************************)
(* Normalizer                                                              *)
(***************************************************************************)
\* the class of line 137; the grave accent, its last member, cannot be written
\* in a TLA+ string and is left out of the alphabet of the model
PUNCTUATION == ".,-_'\"!@#$%^&*()+=[]{}|\\:;<>?/~"

PunctuationChars == Chars(PUNCTUATION)
PunctToSpace(c) == IF c \in PunctuationChars THEN " " ELSE c

\* s.replace(/\s+/g, ' '): the first character of a run of white space becomes
\* one space, the rest of the run goes
CollapseSpaces(s) ==
  Concat([i \in 1..Len(s) |->
            IF ~IsSpace(Char(s, i)) THEN Char(s, i)
            ELSE IF i > 1 /\ IsSpace(Char(s, i - 1)) THEN "" ELSE " "],
         1, Len(s))

\* s.replace(/[.,\-_'"!@#$%^&*()+=\[\]{}|\\:;<>?\/~]/g, ' ')
replacePunctuation(s) == Concat([i \in 1..Len(s) |-> PunctToSpace(Char(s, i))], 1, Len(s))

\* lines 136-139 with the two replace calls in the other order
normalizeCollapseFirst(name) ==
  trim(replacePunctuation(CollapseSpaces(toLowerCase(name))))

normalizeCompanyName(name) ==
  trim(CollapseSpaces(replacePunctuation(toLowerCase(name))))

(***************************************************************************)
(* Suffix stripper                                                         *)
(***************************************************************************)
BUSINESS_SUFFIXES ==
  << "limited liability company", "limited liability corp", "incorporated",
     "corporation", "company", "limited", "enterprise", "enterprises",
     "services", "service", "group", "holdings", "solutions", "partners",
     "associates",
     "l.l.c.", "l.l.c", "llc", "inc.", "inc", "corp.", "corp", "co.", "co",
     "ltd.", "ltd", "l.l.p.", "llp", "p.l.l.c.", "pllc", "p.c.", "pc",
     "p.a.", "pa", "d.b.a.", "d/b/a", "dba" >>

IGNORABLE_WORDS == << "the", "and", "&", "of", "at", "in", "on", "for", "a", "an" >>

\* Array.prototype.sort with a comparator: a stable sort, so an element's
\* place is the number of elements the comparator puts before it plus the
\* earlier elements it ranks equal to it.  before[i][j] is
\* comparator(xs[i], xs[j]) < 0
StableSort(xs, before) ==
  LET ahead(i) == { j \in 1..Len(xs) : before[j][i] \/ (~before[i][j] /\ j < i) }
  IN [k \in 1..Len(xs) |->
        xs[CHOOSE i \in 1..Len(xs) : Cardinality(ahead(i)) = k - 1]]

\* (a, b) => b.length - a.length
LongerFirst(a, b) == Len(b) - Len(a) < 0

\* [...BUSINESS_SUFFIXES].sort((a, b) => b.length - a.length)
sortedSuffixes ==
  StableSort(BUSINESS_SUFFIXES,
             [i \in 1..Len(BUSINESS_SUFFIXES) |->
                [j \in 1..Len(BUSINESS_SUFFIXES) |->
                   LongerFirst(BUSINESS_SUFFIXES[i], BUSINESS_SUFFIXES[j])]])

\* the index of the last character of s that is not white space, 0 if none
LastInk(s) ==
  IF s = "" THEN 0
  ELSE IF ~IsSpace(Char(s, Len(s))) THEN Len(s)
  ELSE LET kept == { k \in 1..Len(s) : ~IsSpace(Char(s, k)) }
       IN IF kept = {} THEN 0 ELSE CHOOSE k \in kept : \A j \in kept : j <= k

\* line 154 with the first phrase of the table as the replacement, for ''
StripSuffixAtSpelledOut(s, suffix, start, end) ==
  IF /\ start >= 1
     /\ toLowerCase(SubSeq(s, start, end)) = suffix
     /\ WordBoundary(s, start)
  THEN trim(SubSeq(s, 1, start - 1) \o BUSINESS_SUFFIXES[1])
  ELSE trim(s)

\* normalized.replace(new RegExp('\\b' + escapedSuffix + '\\s*$', 'i'), '').trim():
\* no suffix ends in white space, so a match ends at the last character of s
\* that is not white space; it starts at a word boundary
StripSuffixAt(s, suffix, start, end) ==
  IF /\ start >= 1
     /\ toLowerCase(SubSeq(s, start, end)) = suffix
     /\ WordBoundary(s, start)
  THEN trim(SubSeq(s, 1, start - 1))
  ELSE trim(s)

StripSuffix(s, suffix) == StripSuffixAt(s, suffix, LastInk(s) - Len(suffix) + 1, LastInk(s))

RECURSIVE StripSuffixes(_, _)
StripSuffixes(s, suffixes) ==
  IF Len(suffixes) = 0 THEN s
  ELSE LET stripped == StripSuffix(s, suffixes[1])
       IN Strict(stripped, StripSuffixes(stripped, Tail(suffixes)))

removeBusinessSuffixes(name) ==
  trim(StripSuffixes(normalizeCompanyName(name), sortedSuffixes))

IsIgnorable(word) == InSeq(toLowerCase(word), IGNORABLE_WORDS)
NotIgnorable(word) == ~IsIgnorable(word)

removeIgnorableWords(name) == join(SelectSeq(split(name), NotIgnorable))

extractCoreName(name) ==
  trim(removeIgnorableWords(removeBusinessSuffixes(normalizeCompanyName(name))))

(***************************************************************************)
(* Variation generator                                                     *)
(***************************************************************************)
\* Set.prototype.add: a Set keeps its members in insertion order
add(variations, v) == IF InSeq(v, variations) THEN variations ELSE Append(variations, v)

\* line 195 with one more suffix
commonSuffixesWithLtd == << "LLC", "Inc", "Corp", "Co", "Inc.", "LLC.", "Ltd" >>

commonSuffixes == << "LLC", "Inc", "Corp", "Co", "Inc.", "LLC." >>

\* Object.entries(abbreviationMap), in the order the keys are written
abbreviationMap ==
  << <<"saint", <<"st", "st.">> >>, <<"st", <<"saint">> >>,
     <<"mount", <<"mt", "mt.">> >>, <<"mt", <<"mount">> >>,
     <<"doctor", <<"dr", "dr.">> >>, <<"dr", <<"doctor">> >>,
     <<"mister", <<"mr", "mr.">> >>, <<"mr", <<"mister">> >> >>

RECURSIVE AddCommonSuffixes(_, _, _)
AddCommonSuffixes(variations, coreName, suffixes) ==
  IF Len(suffixes) = 0 THEN variations
  ELSE AddCommonSuffixes(
         add(add(variations, coreName \o " " \o suffixes[1]),
             coreName \o ", " \o suffixes[1]),
         coreName, Tail(suffixes))

AddAmpersandToAnd(variations, coreName) ==
  IF includes(coreName, " & ")
  THEN add(variations, replaceAll(coreName, " & ", " and "))
  ELSE variations

AddAndVariations(variations, coreName) ==
  AddAmpersandToAnd(IF includes(coreName, " and ")
                    THEN add(variations, replaceAll(coreName, " and ", " & "))
                    ELSE variations,
                    coreName)

RECURSIVE AddAbbrevs(_, _, _, _)
AddAbbrevs(variations, coreName, full, abbrevs) ==
  IF Len(abbrevs) = 0 THEN variations
  ELSE AddAbbrevs(add(variations, replaceWord(coreName, full, abbrevs[1])),
                  coreName, full, Tail(abbrevs))

RECURSIVE AddAbbreviations(_, _, _)
AddAbbreviations(variations, coreName, entries) ==
  IF Len(entries) = 0 THEN variations
  ELSE AddAbbreviations(
         IF includes(coreName, entries[1][1])
         THEN AddAbbrevs(variations, coreName, entries[1][1], entries[1][2])
         ELSE variations,
         coreName, Tail(entries))

LongerThan1(w) == Len(w) > 1
LongerThan2(w) == Len(w) > 2
NonEmpty(v) == Len(v) > 0

slice(xs, n) == SubSeq(xs, 1, IF n < Len(xs) THEN n ELSE Len(xs))

AddWordPrefixes(variations, words) ==
  IF Len(words) > 3
  THEN add(add(variations, join(slice(words, 2))), join(slice(words, 3)))
  ELSE variations

AddFirstWords(variations, coreName) ==
  AddWordPrefixes(variations, SelectSeq(split(coreName), LongerThan1))

\* Array.prototype.map(v => v.trim())
MapTrim(xs) == [i \in 1..Len(xs) |-> trim(xs[i])]

\* lines 184-239, on the trimmed original and the core name of line 188: the
\* original, the core name, the core name with the common suffixes, its
\* and/& forms, its abbreviation forms, its first words; then line 239
VariationsOf(original, coreName) ==
  MapTrim(SelectSeq(
    AddFirstWords(
      AddAbbreviations(
        AddAndVariations(
          AddCommonSuffixes(add(add(<<>>, original), coreName), coreName, commonSuffixes),
          coreName),
        coreName, abbreviationMap),
      coreName),
    NonEmpty))

generateNameVariations(companyName) ==
  VariationsOf(trim(companyName), extractCoreName(companyName))

(***************************************************************************)
(* Scores: exact rationals                                                 *)
(***************************************************************************)
RECURSIVE GCD(_, _)
GCD(a, b) == IF b = 0 THEN a ELSE GCD(b, a % b)

\* 0 / 0
NaN == [n |-> 0, d |-> 0]

\* x / 0 for x > 0
Infinity == [n |-> 1, d |-> 0]

\* n / d for integers n >= 0 and d >= 0: a division by zero does not throw,
\* it gives NaN or Infinity
Frac(n, d) ==
  IF d = 0 THEN (IF n = 0 THEN NaN ELSE Infinity)
  ELSE LET g == GCD(n, d) IN [n |-> n \div g, d |-> d \div g]

isNaN(a) == a = NaN

FAdd(a, b) == Frac(a.n * b.d + b.n * a.d, a.d * b.d)
FMul(a, b) == Frac(a.n * b.n, a.d * b.d)

\* a comparison with NaN is false
FLess(a, b) == ~isNaN(a) /\ ~isNaN(b) /\ a.n * b.d < b.n * a.d
FLeq(a, b) == ~isNaN(a) /\ ~isNaN(b) /\ a.n * b.d <= b.n * a.d

Zero == Frac(0, 1)
One == Frac(1, 1)

(***************************************************************************)
(* Scorer                                                                  *)
(***************************************************************************)
Min3(a, b, c) == IF a <= b /\ a <= c THEN a ELSE IF b <= c THEN b ELSE c

\* lines 277-279 without dp[i - 1][j - 1] in the minimum
RECURSIVE LevRowNoSubstitution(_, _, _, _, _)
LevRowNoSubstitution(prev, c, str2, j, cur) ==
  IF j > Len(str2) THEN cur
  ELSE LET next == Append(cur, IF c = Char(str2, j)
                               THEN prev[j]
                               ELSE 1 + Min3(prev[j + 1], cur[j], cur[j]))
       IN Strict(next, LevRowNoSubstitution(prev, c, str2, j + 1, next))

\* one row dp[i][0..n] from the row above it; prev[j + 1] is dp[i - 1][j]
RECURSIVE LevRow(_, _, _, _, _)
LevRow(prev, c, str2, j, cur) ==
  IF j > Len(str2) THEN cur
  ELSE LET next == Append(cur, IF c = Char(str2, j)
                               THEN prev[j]
                               ELSE 1 + Min3(prev[j + 1], cur[j], prev[j]))
       IN Strict(next, LevRow(prev, c, str2, j + 1, next))

RECURSIVE LevRows(_, _, _, _)
LevRows(str1, str2, i, prev) ==
  IF i > Len(str1) THEN prev
  ELSE LET row == LevRow(prev, Char(str1, i), str2, 1, <<prev[1] + 1>>)
       IN Strict(row, LevRows(str1, str2, i + 1, row))

levenshteinDistance(str1, str2) ==
  LevRows(str1, str2, 1, [j \in 1..(Len(str2) + 1) |-> j - 1])[Len(str2) + 1]

Max(a, b) == IF a > b THEN a ELSE b

\* lines 292-299, on the two lower-cased strings
SimilarityOf(s1, s2) ==
  LET maxLength == Max(Len(s1), Len(s2))
  IN IF s1 = s2 THEN One
     ELSE IF maxLength = 0 THEN One
     ELSE Frac(maxLength - levenshteinDistance(s1, s2), maxLength)

calculateSimilarity(str1, str2) == SimilarityOf(toLowerCase(str1), toLowerCase(str2))

SignificantWord(w) == Len(w) > 2 /\ ~InSeq(w, IGNORABLE_WORDS)

\* the number of needle words found in, or substring-related to, a haystack word
MatchCount(haystackWords, needleWords) ==
  Cardinality({ k \in 1..Len(needleWords) :
     \E h \in 1..Len(haystackWords) :
        \/ haystackWords[h] = needleWords[k]
        \/ includes(haystackWords[h], needleWords[k])
        \/ includes(needleWords[k], haystackWords[h]) })

\* lines 309-316, on the two word lists
EnoughWords(haystackWords, needleWords) ==
  IF Len(needleWords) = 0 THEN FALSE
  ELSE FLeq(Frac(8, 10), Frac(MatchCount(haystackWords, needleWords), Len(needleWords)))

containsAllWords(haystack, needle) ==
  EnoughWords(SelectSeq(split(toLowerCase(haystack)), LongerThan1),
              SelectSeq(split(toLowerCase(needle)), SignificantWord))

Result(score, matchType) == [score |-> score, matchType |-> matchType]

\* lines 383-385
LowSimilarity(coreSimilarity) == Result(FMul(coreSimilarity, Frac(5, 10)), "low_similarity")

\* lines 376-380
PartialOverlap(overlapRatio, coreSimilarity) ==
  IF FLeq(Frac(5, 10), overlapRatio)
  THEN Result(FAdd(Frac(60, 100), FMul(overlapRatio, Frac(25, 100))), "partial_overlap")
  ELSE LowSimilarity(coreSimilarity)

\* lines 370-381, on the two lists of words longer than two characters
OverlapOf(searchWords, resultWords, coreSimilarity) ==
  IF Len(searchWords) > 0 /\ Len(resultWords) > 0
  THEN PartialOverlap(Frac(MatchCount(resultWords, searchWords),
                           Max(Len(searchWords), Len(resultWords))),
                      coreSimilarity)
  ELSE LowSimilarity(coreSimilarity)

WordOverlap(searchCore, resultCore, coreSimilarity) ==
  OverlapOf(SelectSeq(split(searchCore), LongerThan2),
            SelectSeq(split(resultCore), LongerThan2),
            coreSimilarity)

\* lines 359-385, on the core names and their similarity
FuzzyScore(searchCore, resultCore, coreSimilarity) ==
  IF FLeq(Frac(85, 100), coreSimilarity)
  THEN Result(FMul(coreSimilarity, Frac(95, 100)), "fuzzy_high")
  ELSE IF FLeq(Frac(70, 100), coreSimilarity)
  THEN Result(FMul(coreSimilarity, Frac(90, 100)), "fuzzy_medium")
  ELSE WordOverlap(searchCore, resultCore, coreSimilarity)

\* line 341 with the weight 0.8 for 0.08
SearchInResultWide(searchCore, resultCore) ==
  FAdd(Frac(90, 100), FMul(Frac(Len(searchCore), Len(resultCore)), Frac(8, 10)))

\* lines 340-341
SearchInResultScore(searchCore, resultCore) ==
  FAdd(Frac(90, 100), FMul(Frac(Len(searchCore), Len(resultCore)), Frac(8, 100)))

\* lines 345-346 with the base and the weight of line 341
ResultInSearchAsSearch(searchCore, resultCore) ==
  FAdd(Frac(90, 100), FMul(Frac(Len(resultCore), Len(searchCore)), Frac(8, 100)))

\* lines 345-346
ResultInSearchScore(searchCore, resultCore) ==
  FAdd(Frac(85, 100), FMul(Frac(Len(resultCore), Len(searchCore)), Frac(10, 100)))

\* lines 350-356 with the two calls of containsAllWords exchanged
WordRulesExchanged(searchCore, resultCore) ==
  IF containsAllWords(searchCore, resultCore)
  THEN Result(Frac(85, 100), "word_match")
  ELSE IF containsAllWords(resultCore, searchCore)
  THEN Result(Frac(82, 100), "reverse_word_match")
  ELSE FuzzyScore(searchCore, resultCore, calculateSimilarity(searchCore, resultCore))

\* lines 350-385
WordRules(searchCore, resultCore) ==
  IF containsAllWords(resultCore, searchCore)
  THEN Result(Frac(85, 100), "word_match")
  ELSE IF containsAllWords(searchCore, resultCore)
  THEN Result(Frac(82, 100), "reverse_word_match")
  ELSE FuzzyScore(searchCore, resultCore, calculateSimilarity(searchCore, resultCore))

\* lines 339-385 with the word rules of lines 350-356 tried before the
\* containment rules of lines 339-347
ContainmentRulesAfterWords(searchCore, resultCore) ==
  IF containsAllWords(resultCore, searchCore)
  THEN Result(Frac(85, 100), "word_match")
  ELSE IF containsAllWords(searchCore, resultCore)
  THEN Result(Frac(82, 100), "reverse_word_match")
  ELSE IF includes(resultCore, searchCore)
  THEN Result(SearchInResultScore(searchCore, resultCore), "search_in_result")
  ELSE IF includes(searchCore, resultCore)
  THEN Result(ResultInSearchScore(searchCore, resultCore), "result_in_search")
  ELSE FuzzyScore(searchCore, resultCore, calculateSimilarity(searchCore, resultCore))

\* lines 339-385
ContainmentRules(searchCore, resultCore) ==
  IF includes(resultCore, searchCore)
  THEN Result(SearchInResultScore(searchCore, resultCore), "search_in_result")
  ELSE IF includes(searchCore, resultCore)
  THEN Result(ResultInSearchScore(searchCore, resultCore), "result_in_search")
  ELSE WordRules(searchCore, resultCore)

\* lines 329-385 without the rule of lines 334-336
ScoreCascadeNoCoreExact(searchCore, resultCore, searchNormalized, resultNormalized) ==
  IF searchNormalized = resultNormalized THEN Result(One, "exact")
  ELSE ContainmentRules(searchCore, resultCore)

\* lines 329-385, on the core names (lines 323-324) and the normalized names
\* (lines 325-326)
ScoreCascade(searchCore, resultCore, searchNormalized, resultNormalized) ==
  IF searchNormalized = resultNormalized THEN Result(One, "exact")
  ELSE IF searchCore = resultCore THEN Result(Frac(98, 100), "core_exact")
  ELSE ContainmentRules(searchCore, resultCore)

\* lines 323-326 with the search name of line 325 left as it was given
calculateMatchScoreRawSearch(searchName, resultName) ==
  ScoreCascade(extractCoreName(searchName), extractCoreName(resultName),
               searchName, normalizeCompanyName(resultName))

calculateMatchScore(searchName, resultName) ==
  ScoreCascade(extractCoreName(searchName), extractCoreName(resultName),
               normalizeCompanyName(searchName), normalizeCompanyName(resultName))

(***************************************************************************)
(* The names and thresholds the model runs on                              *)
(***************************************************************************)
MIN_MATCH_SCORE == Frac(65, 100)

\* the default threshold, the one of the reviews scraper (0.6), a strict one,
\* and the two ends of the score range
MinScores == { Zero, Frac(60, 100), MIN_MATCH_SCORE, Frac(90, 100), One }

Queries == { "Acme Roofing", "St. Mary's Construction", "XYZ", "The Company", "acme" }

CandidateNames ==
  { "Acme Roofing, LLC", "Acme Roofing Inc", "Saint Marys Construction Inc",
    "Unrelated Co", "Another Biz" }

\* the longest list of result cards
MaxResults == 3

RECURSIVE SeqsUpTo(_, _)
SeqsUpTo(S, n) ==
  IF n = 0 THEN { <<>> }
  ELSE LET shorter == SeqsUpTo(S, n - 1)
       IN shorter \cup { Append(q, e) : q \in shorter, e \in S }

ResultLists == SeqsUpTo(CandidateNames, MaxResults)

\* names at the edges of the text inputs: empty, white space only,
\* punctuation only, suffix words only, filler words only, and both
TotalTexts ==
  { "", " ", " \t ", ".", "&", "LLC", "Inc.", "the", "of the", "The Company",
    "Acme", "Acme LLC" }

\* generateNameVariations and calculateMatchScore on the names above, each
\* evaluated once
Variations == [q \in Queries \cup TotalTexts |-> generateNameVariations(q)]

VariationNames ==
  UNION { { Variations[q][k] : k \in 1..Len(Variations[q]) } : q \in Queries \cup TotalTexts }

MatchScores ==
  [v \in VariationNames |->
     [c \in CandidateNames \cup TotalTexts |-> calculateMatchScore(v, c)]]

\* the arguments of single calls of calculateMatchScore: up to MaxWords words
\* of ScoreWords with one space between them, and the two names of the
\* containment example
ScoreWords == { "Acme", "Roofing,", "rofing", "Inc." }

MaxWords == 2

RECURSIVE TextsUpTo(_, _)
TextsUpTo(words, n) ==
  IF n = 0 THEN { "" }
  ELSE LET shorter == TextsUpTo(words, n - 1)
       IN shorter \cup { IF t = "" THEN w ELSE t \o " " \o w : t \in shorter, w \in words }

ScoreTexts == TextsUpTo(ScoreWords, MaxWords) \cup { "acme", "acme roofing llc", "LLC" }

\* the arguments of single calls of extractCoreName: a name of up to MaxWords
\* words of CoreWords, alone or followed by a space and one phrase of the
\* suffix table
CoreWords == { "Acme", "the", "LLC", "Services" }

CoreTexts == TextsUpTo(CoreWords, MaxWords)

SuffixForms == { "" } \cup { BUSINESS_SUFFIXES[i] : i \in 1..Len(BUSINESS_SUFFIXES) }

RawName(name, form) == IF form = "" THEN name ELSE name \o " " \o form

\* the arguments of single calls of generateNameVariations: up to MaxWords
\* words of VariationWords, a name with a leading space, and names with four
\* and with eight words of the abbreviation map
VariationWords == { "Acme", "Roofing,", "LLC", "Inc.", "the", "Saint", "Dr" }

VariationTexts ==
  TextsUpTo(VariationWords, MaxWords)
    \cup { " LLC", "Saint Mount Doctor Mister", "Saint St Mount Mt Doctor Dr Mister Mr" }

\* the arguments of single calls of normalizeCompanyName: every string of up
\* to MaxLen characters of NormAlphabet
NormAlphabet == { "a", "B", " ", "\t", "." }

MaxLen == 4

RECURSIVE StringsUpTo(_, _)
StringsUpTo(alphabet, n) ==
  IF n = 0 THEN { "" }
  ELSE LET shorter == StringsUpTo(alphabet, n - 1)
       IN shorter \cup { t \o c : t \in shorter, c \in alphabet }

NormTexts == StringsUpTo(NormAlphabet, MaxLen)

\* the arguments of single calls of calculateSimilarity: every string of up
\* to MaxSimLen characters of SimAlphabet
SimAlphabet == { "a", "b", "A" }

MaxSimLen == 3

SimTexts == StringsUpTo(SimAlphabet, MaxSimLen)

(***************************************************************************)
(* findBestMatch and the handler that calls it                             *)
(***************************************************************************)
NoResponse == [status |-> 0]
NoReturn == <<>>

\* line 413 with the comparison turned round
BetterReversed(best, r) == IF FLess(r.score, best.score) THEN r ELSE best

\* lines 413-416: the running best of a card is replaced on a strictly
\* greater score only
Better(best, r) == IF FLess(best.score, r.score) THEN r ELSE best

\* the inner loop of lines 410-417, from variation k on
RECURSIVE BestOverVariations(_, _, _, _)
BestOverVariations(variations, companyName, k, best) ==
  IF k > Len(variations) THEN best
  ELSE LET next == Better(best, MatchScores[variations[k]][companyName])
       IN Strict(next, BestOverVariations(variations, companyName, k + 1, next))

\* lines 406-417
ResultBest(variations, companyName) ==
  BestOverVariations(variations, companyName, 1, Result(Zero, ""))

\* line 427 without its first condition
UpdatesBestUngated(resultBestScore, threshold, best) == FLess(best, resultBestScore)

\* line 427 with >= for >
UpdatesBestOnTie(resultBestScore, threshold, best) ==
  FLeq(threshold, resultBestScore) /\ FLeq(best, resultBestScore)

\* line 427
UpdatesBest(resultBestScore, threshold, best) ==
  FLeq(threshold, resultBestScore) /\ FLess(best, resultBestScore)

\* (a, b) => b.score - a.score
HigherScoreFirst(a, b) == FLess(b.score, a.score)

\* line 435 as an ascending sort followed by reverse()
sortAllScoresReversed(scores) ==
  LET ascending ==
        StableSort(scores,
                   [i \in 1..Len(scores) |->
                      [j \in 1..Len(scores) |-> FLess(scores[i].score, scores[j].score)]])
  IN [k \in 1..Len(scores) |-> ascending[Len(scores) + 1 - k]]

\* line 435
sortAllScores(scores) ==
  StableSort(scores,
             [i \in 1..Len(scores) |->
                [j \in 1..Len(scores) |-> HigherScoreFirst(scores[i], scores[j])]])

\* the entry of lines 419-423 for the card at index i
ScoreEntry(i, best) ==
  [name |-> results[i], score |-> best.score, matchType |-> best.matchType]

Init ==
  /\ queryName \in Queries
  /\ results \in ResultLists
  /\ minScore \in MinScores
  /\ pc = "call"
  /\ nameVariations = <<>>
  /\ resultIndex = 0
  /\ bestMatch = 0
  /\ bestScore = Zero
  /\ bestMatchType = ""
  /\ allScores = <<>>
  /\ response = NoResponse
  /\ argA = ""
  /\ argB = ""
  /\ ret = NoReturn

\* lines 397-401 with the first card for null in line 397
FindBestMatchEnterFirstCard ==
  /\ pc = "call"
  /\ nameVariations' = Variations[queryName]
  /\ bestMatch' = 1
  /\ bestScore' = Zero
  /\ bestMatchType' = ""
  /\ allScores' = <<>>
  /\ resultIndex' = 1
  /\ pc' = "loop"
  /\ UNCHANGED << queryName, results, minScore, response, argA, argB, ret >>

\* lines 397-401
FindBestMatchEnter ==
  /\ pc = "call"
  /\ nameVariations' = Variations[queryName]
  /\ bestMatch' = 0
  /\ bestScore' = Zero
  /\ bestMatchType' = ""
  /\ allScores' = <<>>
  /\ resultIndex' = 1
  /\ pc' = "loop"
  /\ UNCHANGED << queryName, results, minScore, response, argA, argB, ret >>

\* lines 419-431, with best the card's best over the variations
RecordResult(best) ==
  /\ allScores' = Append(allScores, ScoreEntry(resultIndex, best))
  /\ IF UpdatesBest(best.score, minScore, bestScore)
     THEN /\ bestMatch' = resultIndex
          /\ bestScore' = best.score
          /\ bestMatchType' = best.matchType
     ELSE UNCHANGED << bestMatch, bestScore, bestMatchType >>

\* one pass of the loop of lines 405-432
ScoreResult ==
  /\ pc = "loop"
  /\ resultIndex <= Len(results)
  /\ RecordResult(ResultBest(nameVariations, results[resultIndex]))
  /\ resultIndex' = resultIndex + 1
  /\ UNCHANGED << queryName, results, minScore, pc, nameVariations, response,
                  argA, argB, ret >>

\* lines 435-437
FindBestMatchReturn ==
  /\ pc = "loop"
  /\ resultIndex > Len(results)
  /\ allScores' = sortAllScores(allScores)
  /\ pc' = "returned"
  /\ UNCHANGED << queryName, results, minScore, nameVariations, resultIndex, bestMatch,
                  bestScore, bestMatchType, response, argA, argB, ret >>

\* Math.round(score * 100) / 100
RoundToHundredths(score) == Frac((score.n * 200 + score.d) \div (2 * score.d), 100)

\* lines 733-766 of the handler: it calls findBestMatch with the default
\* threshold, and only on a list that is not empty (lines 724-730)
HandlerRespond ==
  /\ pc = "returned"
  /\ minScore = MIN_MATCH_SCORE
  /\ Len(results) > 0
  /\ response' =
       IF bestMatch = 0
       THEN [status |-> 404, allCandidates |-> slice(allScores, 5)]
       ELSE [status |-> 200, company |-> results[bestMatch],
             matchScore |-> RoundToHundredths(bestScore),
             matchType |-> bestMatchType]
  /\ pc' = "responded"
  /\ UNCHANGED << queryName, results, minScore, nameVariations, resultIndex, bestMatch,
                  bestScore, bestMatchType, allScores, argA, argB, ret >>

Next == FindBestMatchEnter \/ ScoreResult \/ FindBestMatchReturn \/ HandlerRespond

Spec == Init /\ [][Next]_vars

(***************************************************************************)
(* Single calls of calculateMatchScore                                     *)
(***************************************************************************)
InitScore ==
  /\ argA \in ScoreTexts
  /\ argB \in ScoreTexts
  /\ pc = "score"
  /\ ret = NoReturn
  /\ queryName = ""
  /\ results = <<>>
  /\ minScore = MIN_MATCH_SCORE
  /\ nameVariations = <<>>
  /\ resultIndex = 0
  /\ bestMatch = 0
  /\ bestScore = Zero
  /\ bestMatchType = ""
  /\ allScores = <<>>
  /\ response = NoResponse

\* calculateMatchScore(argA, argB)
CallCalculateMatchScore ==
  /\ pc = "score"
  /\ ret' = calculateMatchScore(argA, argB)
  /\ pc' = "scored"
  /\ UNCHANGED << queryName, results, minScore, nameVariations, resultIndex, bestMatch,
                  bestScore, bestMatchType, allScores, response, argA, argB >>

NextScore == CallCalculateMatchScore

SpecScore == InitScore /\ [][NextScore]_vars

(***************************************************************************)
(* Calls of normalizeCompanyName, on a text and then on its own result     *)
(***************************************************************************)
InitNorm ==
  /\ argA \in NormTexts
  /\ argB = ""
  /\ pc = "norm"
  /\ ret = NoReturn
  /\ queryName = ""
  /\ results = <<>>
  /\ minScore = MIN_MATCH_SCORE
  /\ nameVariations = <<>>
  /\ resultIndex = 0
  /\ bestMatch = 0
  /\ bestScore = Zero
  /\ bestMatchType = ""
  /\ allScores = <<>>
  /\ response = NoResponse

\* normalizeCompanyName(argA)
NormalizeOnce ==
  /\ pc = "norm"
  /\ ret' = << normalizeCompanyName(argA) >>
  /\ pc' = "normalized"
  /\ UNCHANGED << queryName, results, minScore, nameVariations, resultIndex, bestMatch,
                  bestScore, bestMatchType, allScores, response, argA, argB >>

\* normalizeCompanyName of what the first call returned
NormalizeAgain ==
  /\ pc = "normalized"
  /\ ret' = Append(ret, normalizeCompanyName(ret[1]))
  /\ pc' = "renormalized"
  /\ UNCHANGED << queryName, results, minScore, nameVariations, resultIndex, bestMatch,
                  bestScore, bestMatchType, allScores, response, argA, argB >>

NextNorm == NormalizeOnce \/ NormalizeAgain

SpecNorm == InitNorm /\ [][NextNorm]_vars

(***************************************************************************)
(* Calls of extractCoreName, on a name that ends with a phrase of the      *)
(* suffix table and then on the name without it                            *)
(***************************************************************************)
InitCore ==
  /\ argA \in CoreTexts
  /\ argB \in SuffixForms
  /\ pc = "core"
  /\ ret = NoReturn
  /\ queryName = ""
  /\ results = <<>>
  /\ minScore = MIN_MATCH_SCORE
  /\ nameVariations = <<>>
  /\ resultIndex = 0
  /\ bestMatch = 0
  /\ bestScore = Zero
  /\ bestMatchType = ""
  /\ allScores = <<>>
  /\ response = NoResponse

\* the values of lines 174-177: the normalized name, the name without its
\* suffixes, and the core name
CoreSteps(name) ==
  [ normalized |-> normalizeCompanyName(name),
    stripped |-> removeBusinessSuffixes(normalizeCompanyName(name)),
    core |-> extractCoreName(name) ]

\* extractCoreName(argA + " " + argB)
ExtractCoreNameOfName ==
  /\ pc = "core"
  /\ ret' = << CoreSteps(RawName(argA, argB)) >>
  /\ pc' = "cored"
  /\ UNCHANGED << queryName, results, minScore, nameVariations, resultIndex, bestMatch,
                  bestScore, bestMatchType, allScores, response, argA, argB >>

\* extractCoreName(argA)
ExtractCoreNameOfBase ==
  /\ pc = "cored"
  /\ ret' = Append(ret, CoreSteps(argA))
  /\ pc' = "compared"
  /\ UNCHANGED << queryName, results, minScore, nameVariations, resultIndex, bestMatch,
                  bestScore, bestMatchType, allScores, response, argA, argB >>

NextCore == ExtractCoreNameOfName \/ ExtractCoreNameOfBase

SpecCore == InitCore /\ [][NextCore]_vars

(***************************************************************************)
(* findBestMatch with its (variation, card) pairs scored in any order      *)
(*                                                                         *)
(* The pairs of lines 405-417 are numbered in the order of the code, card  *)
(* by card.  A scheduler scores the next pair, or puts it off while fewer  *)
(* than MaxDeferred pairs are put off, or scores a pair it had put off.    *)
(* Each card keeps its running best (lines 413-416), and when every pair   *)
(* is scored lines 419-431 run once for each card in the order of the      *)
(* list.                                                                   *)
(***************************************************************************)
MaxDeferred == 2

OrderQueries == { "Acme Roofing" }

OrderLists ==
  { << "Acme Roofing, LLC" >>,
    << "Acme Roofing, LLC", "Acme Roofing Inc" >>,
    << "Acme Roofing Inc", "Acme Roofing, LLC" >>,
    << "Unrelated Co", "Acme Roofing Inc" >>,
    << "Another Biz", "Unrelated Co" >> }

\* the number of pairs
PairCount == Len(nameVariations) * Len(results)

\* the card and the variation of the pair at place p of the code's order
CardOfPair(p) == ((p - 1) \div Len(nameVariations)) + 1
VariationOfPair(p) == ((p - 1) % Len(nameVariations)) + 1

\* lines 411-416 for the pair at place p without the comparison of line 413
ScorePairLatest(bests, p) ==
  [bests EXCEPT ![CardOfPair(p)] =
     MatchScores[nameVariations[VariationOfPair(p)]][results[CardOfPair(p)]]]

\* lines 411-416 for the pair at place p
ScorePair(bests, p) ==
  [bests EXCEPT ![CardOfPair(p)] =
     Better(@, MatchScores[nameVariations[VariationOfPair(p)]][results[CardOfPair(p)]])]

NoMatch == [match |-> 0, score |-> Zero, matchType |-> ""]

\* lines 427-431 for the cards from index i on, in the order of the list
RECURSIVE MergeFrom(_, _, _)
MergeFrom(bests, i, held) ==
  IF i > Len(bests) THEN held
  ELSE LET next == IF UpdatesBest(bests[i].score, minScore, held.score)
                   THEN [match |-> i, score |-> bests[i].score,
                         matchType |-> bests[i].matchType]
                   ELSE held
       IN Strict(next, MergeFrom(bests, i + 1, next))

\* lines 397-401 and 406-407: every card starts from the score 0
InitOrder ==
  /\ queryName \in OrderQueries
  /\ results \in OrderLists
  /\ minScore = MIN_MATCH_SCORE
  /\ pc = "pairs"
  /\ nameVariations = Variations[queryName]
  /\ resultIndex = 1
  /\ bestMatch = 0
  /\ bestScore = Zero
  /\ bestMatchType = ""
  /\ allScores = <<>>
  /\ response = NoResponse
  /\ argA = ""
  /\ argB = ""
  /\ ret = [deferred |-> {}, reordered |-> FALSE,
            best |-> [i \in 1..Len(results) |-> Result(Zero, "")]]

ScoreNextPair ==
  /\ pc = "pairs"
  /\ resultIndex <= PairCount
  /\ ret' = [ret EXCEPT !.best = ScorePair(@, resultIndex)]
  /\ resultIndex' = resultIndex + 1
  /\ UNCHANGED << queryName, results, minScore, pc, nameVariations, bestMatch, bestScore,
                  bestMatchType, allScores, response, argA, argB >>

DeferNextPair ==
  /\ pc = "pairs"
  /\ resultIndex <= PairCount
  /\ Cardinality(ret.deferred) < MaxDeferred
  /\ ret' = [ret EXCEPT !.deferred = @ \cup { resultIndex }]
  /\ resultIndex' = resultIndex + 1
  /\ UNCHANGED << queryName, results, minScore, pc, nameVariations, bestMatch, bestScore,
                  bestMatchType, allScores, response, argA, argB >>

ScoreDeferredPair ==
  /\ pc = "pairs"
  /\ \E p \in ret.deferred :
       ret' = [ret EXCEPT !.deferred = @ \ { p },
                          !.reordered = TRUE,
                          !.best = ScorePair(@, p)]
  /\ UNCHANGED << queryName, results, minScore, pc, nameVariations, resultIndex, bestMatch,
                  bestScore, bestMatchType, allScores, response, argA, argB >>

\* lines 419-431 for every card in the order of the list, and lines 435-437
MergeInIndexOrder ==
  /\ pc = "pairs"
  /\ resultIndex > PairCount
  /\ ret.deferred = {}
  /\ bestMatch' = MergeFrom(ret.best, 1, NoMatch).match
  /\ bestScore' = MergeFrom(ret.best, 1, NoMatch).score
  /\ bestMatchType' = MergeFrom(ret.best, 1, NoMatch).matchType
  /\ allScores' = sortAllScores([i \in 1..Len(results) |-> ScoreEntry(i, ret.best[i])])
  /\ pc' = "merged"
  /\ UNCHANGED << queryName, results, minScore, nameVariations, resultIndex, response,
                  argA, argB, ret >>

NextOrder ==
  \/ ScoreNextPair
  \/ DeferNextPair
  \/ ScoreDeferredPair
  \/ MergeInIndexOrder

SpecOrder == InitOrder /\ [][NextOrder]_vars

(***************************************************************************)
(* scrapeWithRetry of the Sunbiz scraper                                   *)
(*                                                                         *)
(* ret holds the state of one call: the loop counter, the errors pushed,   *)
(* the value returned, and one task for every attemptScrape started.  A    *)
(* task is a promise of its own: Promise.race (lines 111 and 210) settles  *)
(* with the first of its promises and leaves the other running.  The       *)
(* timers are not given their lengths: a timer may fire at any moment at   *)
(* which what it races against has not settled.                            *)
(***************************************************************************)
MAX_ATTEMPTS == 4

\* line 142, and puppeteer.launch of line 112 called
NewTask == [at |-> "launching", launch |-> "pending", browser |-> "none", result |-> "none"]

NotReturned == [success |-> FALSE, attempts |-> 0]

InitRetry ==
  /\ pc = "loop"
  /\ ret = [attempt |-> 1, errors |-> <<>>, tasks |-> <<>>, returned |-> NotReturned]
  /\ queryName \in { "Acme Roofing" }
  /\ results = <<>>
  /\ minScore = MIN_MATCH_SCORE
  /\ nameVariations = <<>>
  /\ resultIndex = 0
  /\ bestMatch = 0
  /\ bestScore = Zero
  /\ bestMatchType = ""
  /\ allScores = <<>>
  /\ response = NoResponse
  /\ argA = ""
  /\ argB = ""

RetryUnchanged ==
  UNCHANGED << queryName, results, minScore, nameVariations, resultIndex, bestMatch,
               bestScore, bestMatchType, allScores, response, argA, argB >>

\* lines 205-215: the loop goes round and attemptScrape is called
StartAttempt ==
  /\ pc = "loop"
  /\ ret.attempt <= MAX_ATTEMPTS
  /\ ret' = [ret EXCEPT !.tasks = Append(@, NewTask)]
  /\ pc' = "race"
  /\ RetryUnchanged

\* lines 227-235 and 239-246: the error is pushed, and the loop waits before
\* every attempt but the last
PushError(error) ==
  IF ret.attempt < MAX_ATTEMPTS
  THEN /\ ret' = [ret EXCEPT !.errors = Append(@, error)]
       /\ pc' = "backoff"
  ELSE /\ ret' = [ret EXCEPT !.errors = Append(@, error), !.attempt = @ + 1]
       /\ pc' = "loop"

\* lines 217-235 with the test of line 217 left out
AttemptSettlesAsFailure ==
  /\ pc = "race"
  /\ ret.tasks[ret.attempt].at = "returned"
  /\ PushError("failure")
  /\ RetryUnchanged

\* lines 210-235: attemptScrape has returned before the timer of line 213
AttemptSettles ==
  /\ pc = "race"
  /\ ret.tasks[ret.attempt].at = "returned"
  /\ IF ret.tasks[ret.attempt].result = "success"
     THEN /\ ret' = [ret EXCEPT !.returned = [success |-> TRUE, attempts |-> ret.attempt]]
          /\ pc' = "done"
     ELSE PushError("failure")
  /\ RetryUnchanged

\* lines 213 and 237-246: the timer fires before attemptScrape has returned;
\* attemptScrape is not cancelled
AttemptTimeout ==
  /\ pc = "race"
  /\ ret.tasks[ret.attempt].at # "returned"
  /\ PushError("timeout")
  /\ RetryUnchanged

\* lines 234 and 245: the delay is over and the loop counter goes up
BackoffElapses ==
  /\ pc = "backoff"
  /\ ret' = [ret EXCEPT !.attempt = @ + 1]
  /\ pc' = "loop"
  /\ RetryUnchanged

\* lines 251-255
ReturnAllFailed ==
  /\ pc = "loop"
  /\ ret.attempt > MAX_ATTEMPTS
  /\ ret' = [ret EXCEPT !.returned = [success |-> FALSE, attempts |-> MAX_ATTEMPTS]]
  /\ pc' = "done"
  /\ RetryUnchanged

\* lines 112-117: puppeteer.launch resolves.  Before the timer of line 119
\* the browser is assigned at line 146; after it the race has been lost and
\* nothing holds the browser.
LaunchResolves ==
  /\ \E k \in 1..Len(ret.tasks) :
       /\ ret.tasks[k].launch = "pending"
       /\ ret' = [ret EXCEPT !.tasks[k].launch = "resolved",
                             !.tasks[k].browser = "open",
                             !.tasks[k].at = IF @ = "launching" THEN "working" ELSE @]
  /\ UNCHANGED pc
  /\ RetryUnchanged

\* lines 112-117: puppeteer.launch rejects; lines 184-190 if the timer of
\* line 119 has not fired
LaunchRejects ==
  /\ \E k \in 1..Len(ret.tasks) :
       /\ ret.tasks[k].launch = "pending"
       /\ ret' = IF ret.tasks[k].at = "launching"
                 THEN [ret EXCEPT !.tasks[k].launch = "rejected",
                                  !.tasks[k].at = "returned",
                                  !.tasks[k].result = "failure"]
                 ELSE [ret EXCEPT !.tasks[k].launch = "rejected"]
  /\ UNCHANGED pc
  /\ RetryUnchanged

\* lines 118-120 and 184-190: the launch timer fires first; browser is still
\* null at line 185, and puppeteer.launch goes on
LaunchTimeout ==
  /\ \E k \in 1..Len(ret.tasks) :
       /\ ret.tasks[k].at = "launching"
       /\ ret' = [ret EXCEPT !.tasks[k].at = "returned", !.tasks[k].result = "failure"]
  /\ UNCHANGED pc
  /\ RetryUnchanged

\* lines 147-190: the search and the fetch end, with a result or an error,
\* the browser is closed and attemptScrape returns
ScrapeReturns ==
  /\ \E k \in 1..Len(ret.tasks), result \in { "success", "failure" } :
       /\ ret.tasks[k].at = "working"
       /\ ret' = [ret EXCEPT !.tasks[k].browser = "closed",
                             !.tasks[k].at = "returned",
                             !.tasks[k].result = result]
  /\ UNCHANGED pc
  /\ RetryUnchanged

\* the steps of scrapeWithRetry itself
RetryStep ==
  \/ StartAttempt
  \/ AttemptSettles
  \/ AttemptTimeout
  \/ BackoffElapses
  \/ ReturnAllFailed

\* the steps of the attempts
TaskStep ==
  \/ LaunchResolves
  \/ LaunchRejects
  \/ LaunchTimeout
  \/ ScrapeReturns

NextRetry == RetryStep \/ TaskStep

SpecRetry == InitRetry /\ [][NextRetry]_vars

\* the timers of lines 213, 234 and 245 fire and the continuations of the
\* awaits run: a step of scrapeWithRetry that stays possible is taken
SpecRetryFair == SpecRetry /\ WF_vars(RetryStep)

(***************************************************************************)
(* Single calls of calculateSimilarity and levenshteinDistance             *)
(***************************************************************************)
InitSimilarity ==
  /\ argA \in SimTexts
  /\ argB \in SimTexts
  /\ pc = "compare"
  /\ ret = NoReturn
  /\ queryName = ""
  /\ results = <<>>
  /\ minScore = MIN_MATCH_SCORE
  /\ nameVariations = <<>>
  /\ resultIndex = 0
  /\ bestMatch = 0
  /\ bestScore = Zero
  /\ bestMatchType = ""
  /\ allScores = <<>>
  /\ response = NoResponse

\* levenshteinDistance(argA, argB), calculateSimilarity(argA, argB) and
\* calculateSimilarity(argB, argA)
CallCalculateSimilarity ==
  /\ pc = "compare"
  /\ ret' = [ distance |-> levenshteinDistance(argA, argB),
              similarity |-> calculateSimilarity(argA, argB),
              reversed |-> calculateSimilarity(argB, argA) ]
  /\ pc' = "compared"
  /\ UNCHANGED << queryName, results, minScore, nameVariations, resultIndex, bestMatch,
                  bestScore, bestMatchType, allScores, response, argA, argB >>

NextSimilarity == CallCalculateSimilarity

SpecSimilarity == InitSimilarity /\ [][NextSimilarity]_vars

(***************************************************************************)
(* Single calls of generateNameVariations                                  *)
(***************************************************************************)
InitVariations ==
  /\ argA \in VariationTexts
  /\ argB = ""
  /\ pc = "vary"
  /\ ret = NoReturn
  /\ queryName = ""
  /\ results = <<>>
  /\ minScore = MIN_MATCH_SCORE
  /\ nameVariations = <<>>
  /\ resultIndex = 0
  /\ bestMatch = 0
  /\ bestScore = Zero
  /\ bestMatchType = ""
  /\ allScores = <<>>
  /\ response = NoResponse

\* generateNameVariations(argA)
CallGenerateNameVariations ==
  /\ pc = "vary"
  /\ ret' = generateNameVariations(argA)
  /\ pc' = "varied"
  /\ UNCHANGED << queryName, results, minScore, nameVariations, resultIndex, bestMatch,
                  bestScore, bestMatchType, allScores, response, argA, argB >>

NextVariations == CallGenerateNameVariations

SpecVariations == InitVariations /\ [][NextVariations]_vars

(***************************************************************************)
(* Every function on the names at the edges of the text inputs: the pure   *)
(* functions on argA and argB, then findBestMatch(argA, [argB])            *)
(***************************************************************************)
InitTotal ==
  /\ argA \in TotalTexts
  /\ argB \in TotalTexts
  /\ queryName = argA
  /\ results = << argB >>
  /\ minScore = MIN_MATCH_SCORE
  /\ pc = "total"
  /\ ret = NoReturn
  /\ nameVariations = <<>>
  /\ resultIndex = 0
  /\ bestMatch = 0
  /\ bestScore = Zero
  /\ bestMatchType = ""
  /\ allScores = <<>>
  /\ response = NoResponse

\* normalizeCompanyName(argA), extractCoreName(argA),
\* generateNameVariations(argA), calculateSimilarity of the two core names and
\* calculateMatchScore(argA, argB)
CallPureFunctions ==
  /\ pc = "total"
  /\ ret' = [ normalized |-> normalizeCompanyName(argA),
              core |-> extractCoreName(argA),
              variations |-> generateNameVariations(argA),
              similarity |-> calculateSimilarity(extractCoreName(argA), extractCoreName(argB)),
              match |-> calculateMatchScore(argA, argB) ]
  /\ pc' = "call"
  /\ UNCHANGED << queryName, results, minScore, nameVariations, resultIndex, bestMatch,
                  bestScore, bestMatchType, allScores, response, argA, argB >>

NextTotal ==
  CallPureFunctions \/ FindBestMatchEnter \/ ScoreResult \/ FindBestMatchReturn

SpecTotal == InitTotal /\ [][NextTotal]_vars

(***************************************************************************)
(* Properties of findBestMatch (under Spec)                                *)
(***************************************************************************)
Returned == pc \in { "returned", "responded" }

\* the best of card i over the name variations, as lines 406-417 compute it
CandidateBest(i) == ResultBest(nameVariations, results[i])

\* the entries of lines 419-423 in the order of the cards
InputEntries == [i \in 1..Len(results) |-> ScoreEntry(i, CandidateBest(i))]

\* card i holds the highest score of the cards 1..n
HoldsMax(i, n) == \A j \in 1..n : FLeq(CandidateBest(j).score, CandidateBest(i).score)

\* C1: findBestMatch returns a match if and only if the highest score of the
\* cards is at least minScore, whatever minScore is (0 included), and the
\* match it returns is a card that holds the highest score.
C1_MatchIffHighestScoreReachesMinScore ==
  pc = "returned" =>
    /\ (bestMatch # 0) <=>
         (\E i \in 1..Len(results) : FLeq(minScore, CandidateBest(i).score))
    /\ (bestMatch # 0) => HoldsMax(bestMatch, Len(results))

\* C2: when the list of cards is not empty and every card scores strictly
\* below minScore, findBestMatch returns no match, allScores holds exactly one
\* entry for each card, and the handler answers 404 with the first five of
\* them.
C2_BelowThresholdNoMatch ==
  ( /\ Returned
    /\ Len(results) > 0
    /\ \A i \in 1..Len(results) : FLess(CandidateBest(i).score, minScore) ) =>
    /\ bestMatch = 0
    /\ Len(allScores) = Len(results)
    /\ \A i \in 1..Len(results) :
         Cardinality({ k \in 1..Len(allScores) : allScores[k] = InputEntries[i] })
           = Cardinality({ j \in 1..Len(results) : InputEntries[j] = InputEntries[i] })
    /\ (pc = "responded") =>
         /\ response.status = 404
         /\ response.allCandidates = slice(allScores, 5)

\* a strict threshold turns away two cards, one of which would pass the
\* default threshold
C2_Witness ==
  /\ pc = "returned"
  /\ Len(results) = 2
  /\ bestMatch = 0
  /\ Len(allScores) = 2
  /\ FLeq(MIN_MATCH_SCORE, allScores[1].score)
  /\ FLess(allScores[1].score, minScore)

C4_AllScoresSortedStable ==
  Returned =>
    /\ Len(allScores) = Len(results)
    /\ \A k \in 1..Len(allScores) : \A l \in (k + 1)..Len(allScores) :
         FLeq(allScores[l].score, allScores[k].score)
    /\ \A i \in 1..Len(results) :
         LET SameScore(e) == e.score = InputEntries[i].score
         IN SelectSeq(allScores, SameScore) = SelectSeq(InputEntries, SameScore)

\* the sort moves two tied cards of different names ahead of the first card
\* and keeps them in their order
C4_Witness ==
  /\ pc = "returned"
  /\ Len(allScores) = 3
  /\ allScores[1].name = results[2]
  /\ allScores[2].name = results[3]
  /\ allScores[3].name = results[1]
  /\ allScores[1].name # allScores[2].name
  /\ allScores[1].score = allScores[2].score
  /\ FLess(allScores[3].score, allScores[2].score)

\* C9: for the query "Acme Roofing" and the one card "Acme Roofing, LLC"
\* findBestMatch returns that card with the match type core_exact or exact
\* and a score of at least 0.95.
C9_ScenarioA ==
  (pc = "returned" /\ queryName = "Acme Roofing" /\ results = << "Acme Roofing, LLC" >>) =>
    /\ bestMatch = 1
    /\ bestMatchType \in { "core_exact", "exact" }
    /\ FLeq(Frac(95, 100), bestScore)
    /\ allScores = << [name |-> "Acme Roofing, LLC", score |-> bestScore,
                       matchType |-> bestMatchType] >>

C9_Witness ==
  /\ pc = "returned"
  /\ queryName = "Acme Roofing"
  /\ results = << "Acme Roofing, LLC" >>
  /\ bestMatch = 1
  /\ minScore = MIN_MATCH_SCORE

\* C10: for the query "St. Mary's Construction" and the card
\* "Saint Marys Construction Inc" the best score of the card is at least 0.85,
\* and the variation "saint mary s construction", which the abbreviation map
\* makes of the core name (st -> saint), is among the variations and reaches
\* that best score.
C10_ScenarioB ==
  ( /\ pc = "returned"
    /\ queryName = "St. Mary's Construction"
    /\ results = << "Saint Marys Construction Inc" >> ) =>
    /\ FLeq(Frac(85, 100), allScores[1].score)
    /\ InSeq("saint mary s construction", nameVariations)
    /\ InSeq("saint mary s construction",
             AddAbbreviations(<<>>, extractCoreName(queryName), abbreviationMap))
    /\ calculateMatchScore("saint mary s construction", results[1]).score
         = allScores[1].score

C10_Witness ==
  /\ pc = "returned"
  /\ queryName = "St. Mary's Construction"
  /\ results = << "Saint Marys Construction Inc" >>
  /\ allScores[1].score = Frac(85, 100)
  /\ allScores[1].matchType = "word_match"

(***************************************************************************)
(* Properties of calculateMatchScore (under SpecScore)                     *)
(***************************************************************************)
\* C5: a name whose normalized form is not empty, scored against itself, gets
\* the score 1 and the match type exact.
C5_SelfMatchIsExact ==
  (pc = "scored" /\ argA = argB /\ normalizeCompanyName(argA) # "") =>
    ret = Result(One, "exact")

\* a name with an upper-case letter, a suffix and punctuation against itself
C5_Witness ==
  /\ pc = "scored"
  /\ argA = "Acme Inc."
  /\ argB = "Acme Inc."
  /\ ret.matchType = "exact"

\* C6: the score calculateMatchScore returns is at least 0 and at most 1 for
\* every pair of strings, the empty string included.
C6_ScoreInUnitInterval ==
  (pc = "scored") =>
    /\ ret.score.d > 0
    /\ FLeq(Zero, ret.score)
    /\ FLeq(ret.score, One)

\* the empty search name against a name with a core
C6_Witness ==
  /\ pc = "scored"
  /\ argA = ""
  /\ argB = "Acme Roofing,"
  /\ ret.matchType = "search_in_result"

\* C7: calculateMatchScore("acme", "acme roofing llc") is a search_in_result
\* score, calculateMatchScore("acme roofing llc", "acme") is a
\* result_in_search score, the two scores differ and both are strictly
\* greater than 0.85.
C7_ContainmentAsymmetry ==
  (pc = "scored" /\ { argA, argB } = { "acme", "acme roofing llc" } /\ argA # argB) =>
    /\ ret.matchType = IF argA = "acme" THEN "search_in_result" ELSE "result_in_search"
    /\ FLess(Frac(85, 100), ret.score)
    /\ ret.score # calculateMatchScore(argB, argA).score

C7_Witness ==
  /\ pc = "scored"
  /\ argA = "acme roofing llc"
  /\ argB = "acme"
  /\ ret.matchType = "result_in_search"
  /\ calculateMatchScore(argB, argA).matchType = "search_in_result"

(***************************************************************************)
(* Properties of normalizeCompanyName (under SpecNorm)                     *)
(***************************************************************************)
\* C8: normalizeCompanyName applied to what normalizeCompanyName returned
\* returns it unchanged.
C8_NormalizeIdempotent ==
  (pc = "renormalized") => ret[2] = ret[1]

\* a text with an upper-case letter, punctuation and a tab
C8_Witness ==
  /\ pc = "renormalized"
  /\ argA = "B.\ta"
  /\ ret = << "b a", "b a" >>

\* C11: for the query "XYZ" against the cards "Unrelated Co" and "Another
\* Biz" with the threshold 0.65, findBestMatch returns no match, and its
\* table holds exactly the two cards, each with a score below 0.65; the
\* handler answers 404 with both of them.
C11_ScenarioC ==
  ( /\ Returned
    /\ queryName = "XYZ"
    /\ results = << "Unrelated Co", "Another Biz" >>
    /\ minScore = MIN_MATCH_SCORE )
  => /\ bestMatch = 0
     /\ Len(allScores) = 2
     /\ { allScores[k].name : k \in 1..2 } = { "Unrelated Co", "Another Biz" }
     /\ \A k \in 1..2 : FLess(allScores[k].score, Frac(65, 100))
     /\ pc = "responded" =>
          response.status = 404 /\ Len(response.allCandidates) = 2

C11_Witness ==
  /\ pc = "responded"
  /\ queryName = "XYZ"
  /\ results = << "Unrelated Co", "Another Biz" >>
  /\ minScore = MIN_MATCH_SCORE
  /\ bestMatch = 0
  /\ Len(allScores) = 2
  /\ FLess(Zero, allScores[1].score)

\* C12: on an empty list of cards the loop body never runs, and findBestMatch
\* returns an empty table and no match, for every query and threshold.
C12_ScenarioD ==
  /\ (pc = "loop" /\ results = <<>>) => resultIndex > Len(results)
  /\ (Returned /\ results = <<>>) =>
       /\ allScores = <<>>
       /\ bestMatch = 0
       /\ bestScore = Zero
       /\ bestMatchType = ""

C12_Witness ==
  /\ pc = "returned"
  /\ results = <<>>
  /\ queryName = "XYZ"
  /\ allScores = <<>>
  /\ bestMatch = 0

(***************************************************************************)
(* Properties of the pure functions at the edges of their inputs (under    *)
(* SpecTotal)                                                              *)
(***************************************************************************)
\* a number that is neither NaN nor Infinity
IsFinite(x) == x.d > 0

MatchTypes ==
  { "exact", "core_exact", "search_in_result", "result_in_search", "word_match",
    "reverse_word_match", "fuzzy_high", "fuzzy_medium", "partial_overlap",
    "low_similarity" }

\* C13: on every text, the empty one, white space only, and names made of
\* suffix or filler words only included, normalizeCompanyName and
\* extractCoreName return a string, generateNameVariations returns a list of
\* strings, calculateSimilarity and calculateMatchScore return a finite number
\* (never NaN), the containment rules divide by a length that is not zero,
\* and findBestMatch returns a table with one finite score for the card.
C13_Totality ==
  /\ pc # "total" =>
       /\ ret.normalized \in STRING
       /\ ret.core \in STRING
       /\ ret.variations \in Seq(STRING)
       /\ IsFinite(ret.similarity)
       /\ FLeq(Zero, ret.similarity) /\ FLeq(ret.similarity, One)
       /\ IsFinite(ret.match.score)
       /\ ret.match.matchType \in MatchTypes
       /\ ret.match.matchType = "search_in_result" => Len(extractCoreName(argB)) > 0
       /\ ret.match.matchType = "result_in_search" => Len(ret.core) > 0
  /\ pc = "loop" => nameVariations \in Seq(STRING)
  /\ pc = "returned" =>
       /\ Len(allScores) = 1
       /\ IsFinite(allScores[1].score)
       /\ allScores[1].matchType \in MatchTypes \cup { "" }
       /\ IsFinite(bestScore)
       /\ bestMatch \in { 0, 1 }

\* white space only against a suffix only: both core names are empty, and the
\* normalized names differ
C13_Witness ==
  /\ pc = "returned"
  /\ argA = " \t "
  /\ argB = "LLC"
  /\ ret.normalized = ""
  /\ ret.core = ""
  /\ extractCoreName(argB) = ""
  /\ IsFinite(ret.match.score)
  /\ Len(allScores) = 1

(***************************************************************************)
(* Properties of extractCoreName (under SpecCore)                          *)
(***************************************************************************)
\* C14: the name without its suffixes is never longer than the normalized
\* name it was made from.
C14_SuffixStrippingNeverLengthens ==
  pc \in { "cored", "compared" } =>
    \A k \in 1..Len(ret) :
      /\ Len(ret[k].stripped) <= Len(ret[k].normalized)
      /\ Len(ret[k].core) <= Len(ret[k].normalized)

C14_Witness ==
  /\ pc = "cored"
  /\ argA = "Acme"
  /\ argB = "llc"
  /\ ret[1].normalized = "acme llc"
  /\ ret[1].stripped = "acme"

(***************************************************************************)
(* Properties of the cascade of calculateMatchScore (under SpecScore)      *)
(***************************************************************************)
\* extractCoreName and normalizeCompanyName on the names of ScoreTexts, and
\* calculateSimilarity on their core names, each evaluated once
ScoreCores == [t \in ScoreTexts |-> extractCoreName(t)]

ScoreNorms == [t \in ScoreTexts |-> normalizeCompanyName(t)]

ScoreCoreNames == { ScoreCores[t] : t \in ScoreTexts }

CoreSimilarities ==
  [a \in ScoreCoreNames |-> [b \in ScoreCoreNames |-> calculateSimilarity(a, b)]]

\* the core names and normalized names of the two arguments
CoreA == ScoreCores[argA]
CoreB == ScoreCores[argB]
NormA == ScoreNorms[argA]
NormB == ScoreNorms[argB]

\* rule 3 is reached and applies: rules 1 and 2 do not match, and the core
\* name of argB contains the core name of argA
SearchInResultCase ==
  /\ pc = "scored"
  /\ NormA # NormB
  /\ CoreA # CoreB
  /\ includes(CoreB, CoreA)

\* C15 as stated: when the core name of b contains the core name of a (and
\* rules 1 and 2 do not match) the result is search_in_result with the score
\* 0.85 + 0.08 * (len(core(a)) / len(core(b))).
C15_SearchInResultFrom085 ==
  SearchInResultCase =>
    /\ ret.matchType = "search_in_result"
    /\ ret.score = FAdd(Frac(85, 100), FMul(Frac(Len(CoreA), Len(CoreB)), Frac(8, 100)))

\* C15 amended: in that case the result is search_in_result with the score
\* 0.90 + 0.08 * (len(core(a)) / len(core(b))), and search_in_result is
\* returned in that case only.
C15_SearchInResultFrom090 ==
  /\ SearchInResultCase =>
       /\ ret.matchType = "search_in_result"
       /\ ret.score = FAdd(Frac(90, 100), FMul(Frac(Len(CoreA), Len(CoreB)), Frac(8, 100)))
  /\ (pc = "scored" /\ ret.matchType = "search_in_result") => SearchInResultCase

C15_Witness ==
  /\ SearchInResultCase
  /\ argA = "acme"
  /\ argB = "acme roofing llc"
  /\ ret = Result(Frac(139, 150), "search_in_result")

\* C16: core_exact is returned only when the two core names are equal and
\* not empty and the normalized names differ; two names whose core names are
\* both empty are not classified core_exact.
C16_CoreExactOnlyOnNonEmptyCores ==
  (pc = "scored" /\ ret.matchType = "core_exact") =>
    /\ CoreA = CoreB
    /\ CoreA # ""
    /\ NormA # NormB

\* the word rules are reached: rules 1 and 2 do not match and neither core
\* name contains the other
WordRulesCase ==
  /\ pc = "scored"
  /\ NormA # NormB
  /\ CoreA # CoreB
  /\ ~includes(CoreB, CoreA)
  /\ ~includes(CoreA, CoreB)

\* at least 80% of the significant words of the core name of argA are found
\* in the words of the core name of argB, and the same with argA and argB
\* exchanged
WordsOfAFoundInB == containsAllWords(CoreB, CoreA)
WordsOfBFoundInA == containsAllWords(CoreA, CoreB)

\* C17 as stated: when neither core name contains the other and at least 80%
\* of the significant words of core(b) are found in the words of core(a), the
\* result is word_match with score 0.85; the reverse variant with score 0.82
\* is returned only when the words of core(a) are found in core(b).
C17_WordMatchOnWordsOfResult ==
  /\ (WordRulesCase /\ WordsOfBFoundInA) => ret = Result(Frac(85, 100), "word_match")
  /\ (pc = "scored" /\ ret.matchType = "reverse_word_match") =>
       ret.score = Frac(82, 100) /\ WordsOfAFoundInB

\* C17 amended: when neither core name contains the other and at least 80% of
\* the significant words of core(a) are found in the words of core(b), the
\* result is word_match with score 0.85; when that fails and at least 80% of
\* the significant words of core(b) are found in the words of core(a), it is
\* reverse_word_match with score 0.82; both labels are returned in these
\* cases only.
C17_WordMatchOnWordsOfSearch ==
  /\ (WordRulesCase /\ WordsOfAFoundInB) => ret = Result(Frac(85, 100), "word_match")
  /\ (WordRulesCase /\ ~WordsOfAFoundInB /\ WordsOfBFoundInA) =>
       ret = Result(Frac(82, 100), "reverse_word_match")
  /\ (pc = "scored" /\ ret.matchType = "word_match") => (WordRulesCase /\ WordsOfAFoundInB)
  /\ (pc = "scored" /\ ret.matchType = "reverse_word_match") =>
       (WordRulesCase /\ ~WordsOfAFoundInB /\ WordsOfBFoundInA)

\* "acme acme" against "acme roofing": both words of the search name are
\* found in the result name, and "roofing" is not found in the search name
C17_Witness ==
  /\ WordRulesCase
  /\ argA = "Acme Acme"
  /\ argB = "Acme Roofing,"
  /\ WordsOfAFoundInB
  /\ ~WordsOfBFoundInA
  /\ ret = Result(Frac(85, 100), "word_match")

\* the similarity of the two core names (line 358) and the overlap ratio of
\* lines 370-378
CoreSimilarity == CoreSimilarities[CoreA][CoreB]

SearchWords == SelectSeq(split(CoreA), LongerThan2)
ResultWords == SelectSeq(split(CoreB), LongerThan2)

OverlapReachesHalf ==
  /\ Len(SearchWords) > 0
  /\ Len(ResultWords) > 0
  /\ FLeq(Frac(50, 100),
          Frac(MatchCount(ResultWords, SearchWords),
               Max(Len(SearchWords), Len(ResultWords))))

\* the condition of the rule that returns the label, on the two arguments
RuleHolds(label) ==
  CASE label = "exact" -> NormA = NormB
    [] label = "core_exact" -> CoreA = CoreB
    [] label = "search_in_result" -> includes(CoreB, CoreA)
    [] label = "result_in_search" -> includes(CoreA, CoreB)
    [] label = "word_match" -> WordsOfAFoundInB
    [] label = "reverse_word_match" -> WordsOfBFoundInA
    [] label = "fuzzy_high" -> FLeq(Frac(85, 100), CoreSimilarity)
    [] label = "fuzzy_medium" -> FLeq(Frac(70, 100), CoreSimilarity)
    [] label = "partial_overlap" -> OverlapReachesHalf
    [] label = "low_similarity" -> TRUE

\* the first label of the list, from place k on, whose rule's condition holds
RECURSIVE FirstRuleFrom(_, _)
FirstRuleFrom(labels, k) ==
  IF RuleHolds(labels[k]) THEN labels[k] ELSE FirstRuleFrom(labels, k + 1)

FirstRule(labels) == FirstRuleFrom(labels, 1)

NineRules ==
  << "exact", "core_exact", "search_in_result", "result_in_search", "word_match",
     "fuzzy_high", "fuzzy_medium", "partial_overlap", "low_similarity" >>

TenRules ==
  << "exact", "core_exact", "search_in_result", "result_in_search", "word_match",
     "reverse_word_match", "fuzzy_high", "fuzzy_medium", "partial_overlap",
     "low_similarity" >>

\* C18 as stated: the matchType returned is the label of the first rule whose
\* condition holds, in the order exact, core_exact, search_in_result,
\* result_in_search, word_match, fuzzy_high, fuzzy_medium, partial_overlap,
\* low_similarity.
C18_CascadeOfNineRules ==
  pc = "scored" => ret.matchType = FirstRule(NineRules)

\* C18 amended: the matchType returned is the label of the first rule whose
\* condition holds, in the order exact, core_exact, search_in_result,
\* result_in_search, word_match, reverse_word_match, fuzzy_high,
\* fuzzy_medium, partial_overlap, low_similarity.
C18_CascadeOfTenRules ==
  pc = "scored" => ret.matchType = FirstRule(TenRules)

\* the conditions of rule 3 and of rule 5 both hold, and rule 3 decides
C18_Witness ==
  /\ pc = "scored"
  /\ NormA # NormB
  /\ CoreA # CoreB
  /\ includes(CoreB, CoreA)
  /\ WordsOfAFoundInB
  /\ ret.matchType = "search_in_result"

(***************************************************************************)
(* Properties of the core name (under SpecCore)                            *)
(***************************************************************************)
\* s ends with the phrase p, as whole words
EndsWithPhrase(s, p) ==
  /\ Len(s) >= Len(p)
  /\ SubSeq(s, Len(s) - Len(p) + 1, Len(s)) = p
  /\ Len(s) = Len(p) \/ Char(s, Len(s) - Len(p)) = " "

EndsWithSuffix(s) ==
  \E i \in 1..Len(BUSINESS_SUFFIXES) : EndsWithPhrase(s, BUSINESS_SUFFIXES[i])

HasFillerWord(s) ==
  \E k \in 1..Len(split(s)) : InSeq(split(s)[k], IGNORABLE_WORDS)

\* C19: the result of extractCoreName never ends with a phrase of the suffix
\* table and contains no filler word; a name that ends in two stacked
\* suffixes loses both.
C19_CoreNameIsSuffixFree ==
  pc \in { "cored", "compared" } =>
    \A k \in 1..Len(ret) : ~EndsWithSuffix(ret[k].core) /\ ~HasFillerWord(ret[k].core)

\* the dotted and slashed abbreviations of the suffix table
DottedForms ==
  { "l.l.c.", "inc.", "corp.", "co.", "ltd.", "l.l.p.", "p.l.l.c.", "p.c.", "p.a.",
    "d.b.a.", "d/b/a" }

\* C20: for a base name N and each dotted or slashed abbreviation of the
\* suffix table, extractCoreName(N + " " + form) equals extractCoreName(N).
C20_DottedFormsAreStripped ==
  (pc = "compared" /\ argB \in DottedForms) => ret[1].core = ret[2].core

(***************************************************************************)
(* Properties of generateNameVariations (under SpecVariations)             *)
(***************************************************************************)
\* C21: the list generateNameVariations returns contains the original name
\* as given (trimmed) and, when it is not empty, the normalized name.
C21_VariationsHoldNormalizedName ==
  pc = "varied" =>
    /\ trim(argA) # "" => InSeq(trim(argA), ret)
    /\ normalizeCompanyName(argA) # "" => InSeq(normalizeCompanyName(argA), ret)

\* C22: the list generateNameVariations returns contains no empty string and
\* no two equal strings.
C22_VariationsAreDistinct ==
  pc = "varied" =>
    /\ \A k \in 1..Len(ret) : ret[k] # ""
    /\ \A j, k \in 1..Len(ret) : ret[j] = ret[k] => j = k

\* C23 as stated: generateNameVariations returns fewer than 20 strings.
C23_FewerThan20Variations ==
  pc = "varied" => Len(ret) < 20

\* C23 amended: generateNameVariations returns at most 28 strings: the
\* original, the core name, 12 forms with a common suffix, at most 12
\* abbreviation forms and 2 prefixes (the and/& forms cannot occur, a core
\* name holds neither "and" nor "&").
C23_AtMost28Variations ==
  pc = "varied" =>
    /\ Len(ret) <= 28
    /\ ~includes(extractCoreName(argA), " and ")
    /\ ~includes(extractCoreName(argA), " & ")

\* a name with all eight words of the abbreviation map
C23_Witness ==
  /\ pc = "varied"
  /\ argA = "Saint St Mount Mt Doctor Dr Mister Mr"
  /\ Len(ret) = 28

(***************************************************************************)
(* Further properties of findBestMatch (under Spec)                        *)
(***************************************************************************)
\* what calculateMatchScore returns for variation v and the card of an entry
ScoreOfVariation(v, entry) == MatchScores[nameVariations[v]][entry.name]

\* C24: every entry of allScores carries the highest score of its card over
\* the variations and the matchType calculateMatchScore returned with it for
\* the first variation that reaches it; the matchType is one of the labels of
\* the cascade, also when the highest score is 0.
C24_EntriesCarryScoreAndLabel ==
  Returned =>
    \A k \in 1..Len(allScores) :
      /\ allScores[k].matchType \in MatchTypes
      /\ \E v \in 1..Len(nameVariations) :
           /\ ScoreOfVariation(v, allScores[k]).score = allScores[k].score
           /\ ScoreOfVariation(v, allScores[k]).matchType = allScores[k].matchType
           /\ \A w \in 1..Len(nameVariations) :
                /\ FLeq(ScoreOfVariation(w, allScores[k]).score, allScores[k].score)
                /\ w < v => FLess(ScoreOfVariation(w, allScores[k]).score, allScores[k].score)

(***************************************************************************)
(* Properties of calculateSimilarity (under SpecSimilarity)                *)
(***************************************************************************)
\* the edit distance of x from place i and y from place j, by its recursive
\* definition: unit cost for an insertion, a deletion and a substitution
RECURSIVE EditDistanceFrom(_, _, _, _)
EditDistanceFrom(x, y, i, j) ==
  IF i > Len(x) THEN Len(y) - j + 1
  ELSE IF j > Len(y) THEN Len(x) - i + 1
  ELSE Min3(1 + EditDistanceFrom(x, y, i + 1, j),
            1 + EditDistanceFrom(x, y, i, j + 1),
            (IF Char(x, i) = Char(y, j) THEN 0 ELSE 1)
              + EditDistanceFrom(x, y, i + 1, j + 1))

EditDistance(x, y) == EditDistanceFrom(x, y, 1, 1)

\* 1 - editDistance(x, y) / max(len(x), len(y)), and 1 for two empty strings
SimilarityByDefinition(x, y) ==
  IF Max(Len(x), Len(y)) = 0 THEN One
  ELSE Frac(Max(Len(x), Len(y)) - EditDistance(x, y), Max(Len(x), Len(y)))

\* C25 as stated: levenshteinDistance is the edit distance, and
\* calculateSimilarity(x, y) is 1 - editDistance(x, y) / max(len(x), len(y)),
\* 1 for two empty strings, symmetric and between 0 and 1.
C25_SimilarityOfGivenStrings ==
  pc = "compared" =>
    /\ ret.distance = EditDistance(argA, argB)
    /\ ret.similarity = SimilarityByDefinition(argA, argB)
    /\ (argA = "" /\ argB = "") => ret.similarity = One
    /\ ret.similarity = ret.reversed
    /\ FLeq(Zero, ret.similarity) /\ FLeq(ret.similarity, One)

\* C25 amended: levenshteinDistance is the edit distance, and
\* calculateSimilarity(x, y) is 1 - editDistance(x', y') / max(len(x), len(y))
\* for the lower-cased x' and y', 1 for two empty strings, symmetric and
\* between 0 and 1.
C25_SimilarityOfLowerCasedStrings ==
  pc = "compared" =>
    /\ ret.distance = EditDistance(argA, argB)
    /\ ret.similarity = SimilarityByDefinition(toLowerCase(argA), toLowerCase(argB))
    /\ (argA = "" /\ argB = "") => ret.similarity = One
    /\ ret.similarity = ret.reversed
    /\ FLeq(Zero, ret.similarity) /\ FLeq(ret.similarity, One)

\* one substitution and one insertion between two lower-case strings
C25_Witness ==
  /\ pc = "compared"
  /\ argA = "ab"
  /\ argB = "bba"
  /\ ret.distance = 2
  /\ ret.similarity = Frac(1, 3)

(***************************************************************************)
(* The returned match and the sorted table (under Spec)                    *)
(***************************************************************************)
\* C27: whenever findBestMatch returns a match, it is the card of the first
\* entry of the sorted allScores: the name, the score and the matchType
\* returned are those of allScores[0].
C27_MatchIsFirstOfSortedTable ==
  (Returned /\ bestMatch # 0) =>
    /\ Len(allScores) > 0
    /\ allScores[1].name = results[bestMatch]
    /\ allScores[1].score = bestScore
    /\ allScores[1].matchType = bestMatchType

\* the match is the second card, ahead of a later card of another name with
\* the same score, and the sort has moved it to the head of the table
C27_Witness ==
  /\ pc = "returned"
  /\ bestMatch = 2
  /\ Len(results) = 3
  /\ results[1] # results[2]
  /\ results[3] # results[2]
  /\ allScores[1].name = results[2]
  /\ allScores[2].name = results[3]
  /\ allScores[2].score = bestScore

(***************************************************************************)
(* Queries with an empty core name (under Spec)                            *)
(***************************************************************************)
\* the card at index i has a core name, and its normalized name is the
\* normalized form of no variation of the query
UnrelatedCard(i) ==
  /\ extractCoreName(results[i]) # ""
  /\ \A v \in 1..Len(nameVariations) :
       normalizeCompanyName(nameVariations[v]) # normalizeCompanyName(results[i])

\* C28: with the default minScore a query whose core name is empty is not
\* resolved to a card that has a core name and whose normalized name is the
\* normalized form of no variation of the query.
C28_EmptyCoreMatchesNoUnrelatedCard ==
  (Returned /\ minScore = MIN_MATCH_SCORE /\ extractCoreName(queryName) = ""
     /\ bestMatch # 0) =>
    ~UnrelatedCard(bestMatch)

(***************************************************************************)
(* Order independence of findBestMatch (under SpecOrder)                   *)
(***************************************************************************)
\* the card findBestMatch returns when it scores the pairs in the order of
\* the code
SequentialMatch ==
  MergeFrom([i \in 1..Len(results) |-> CandidateBest(i)], 1, NoMatch).match

\* C26: in whatever order the (variation, card) pairs are scored, once the
\* cards are merged in the order of the list each card holds the best score
\* it has in the order of the code, and the card returned is the same one.
C26_OrderIndependence ==
  pc = "merged" =>
    /\ \A i \in 1..Len(results) : ret.best[i].score = CandidateBest(i).score
    /\ bestMatch = SequentialMatch
    /\ bestMatch # 0 => bestScore = CandidateBest(bestMatch).score

\* pairs were scored out of the code's order, two cards of different names
\* tie at the highest score, and the first of the list is returned
C26_Witness ==
  /\ pc = "merged"
  /\ ret.reordered
  /\ Len(results) = 2
  /\ results[1] # results[2]
  /\ ret.best[1].score = ret.best[2].score
  /\ bestMatch = 1

(***************************************************************************)
(* The retry loop of the Sunbiz scraper (under SpecRetryFair and SpecRetry) *)
(***************************************************************************)
\* at most MAX_ATTEMPTS attempts are started, each after the one before it
\* was seen to fail or to time out; a success is returned with the number of
\* the attempt that succeeded, after which no attempt is started; a failure is
\* returned with attempts = MAX_ATTEMPTS after MAX_ATTEMPTS failed attempts
RetryProtocol ==
  /\ Len(ret.tasks) <= MAX_ATTEMPTS
  /\ Len(ret.errors) <= Len(ret.tasks)
  /\ Len(ret.tasks) <= Len(ret.errors) + 1
  /\ \A k \in 1..Len(ret.errors) :
       \/ ret.errors[k] = "timeout"
       \/ ret.errors[k] = "failure" /\ ret.tasks[k].result = "failure"
  /\ (pc = "done" /\ ret.returned.success) =>
       /\ ret.returned.attempts = Len(ret.tasks)
       /\ ret.tasks[Len(ret.tasks)].result = "success"
       /\ Len(ret.errors) = Len(ret.tasks) - 1
  /\ (pc = "done" /\ ~ret.returned.success) =>
       /\ ret.returned.attempts = MAX_ATTEMPTS
       /\ Len(ret.errors) = MAX_ATTEMPTS
       /\ Len(ret.tasks) = MAX_ATTEMPTS

\* C29: scrapeWithRetry starts at most MAX_ATTEMPTS attempts, one after the
\* failure or the timeout of the one before, stops at the first success and
\* reports its number, reports a failure with attempts = MAX_ATTEMPTS only
\* after MAX_ATTEMPTS failed attempts, and always returns.
C29_RetryProtocolAndTermination == []RetryProtocol /\ <>(pc = "done")

\* the third attempt succeeds after a timeout and a failure
C29_Witness ==
  /\ pc = "done"
  /\ ret.returned = [success |-> TRUE, attempts |-> 3]
  /\ ret.errors = << "timeout", "failure" >>

\* the browsers open at this moment
OpenBrowsers == { k \in 1..Len(ret.tasks) : ret.tasks[k].browser = "open" }

\* C30: during one call of scrapeWithRetry at most one browser is open at any
\* time: the browser of an attempt that ended by the attempt timeout or the
\* launch timeout is closed before the next attempt launches one.
C30_AtMostOneBrowserOpen == Cardinality(OpenBrowsers) <= 1

====
